---- MODULE Spec2Model ----
(***************************************************************************)
(* A model of the image-to-text pipeline:                                  *)
(*   - the OCREngine singleton gateway (ocr_engine.py): __new__, __init__  *)
(*     and extract_text, one action per interleaving point;                *)
(*   - preprocess_image (preprocessing.py), stage by stage;                *)
(*   - the post-processing rewrites (post_processing.py), as operators on  *)
(*     strings represented as sequences of one-character strings.          *)
(***************************************************************************)
EXTENDS Integers, Sequences, FiniteSets, TLC

(* ------------------------------ bounds --------------------------------- *)

\* Number of caller threads of the gateway.
NThreads == 2

\* OCREngine() requests each of the concurrent threads issues.
MaxCalls == 1

\* OCREngine() requests the caller of the sequential runs issues.
MaxSeqCalls == 2

\* Groups in one engine result, and text boxes in one engine result.
MaxGroups == 2

MaxRegions == 2

\* Height and width of an image file, in pixels.
MaxDim == 2

\* Length of a text handed to correct_punctuation and clean_ocr_text.
MaxLen == 4

\* Length of a text handed to apply_ocr_corrections, and entries of its dict.
MaxTextLen == 3

MaxEntries == 2

Threads == 1..NThreads

\* Wrapper objects that could ever be allocated: one per request at most.
Objects == 1..(NThreads * MaxCalls + MaxSeqCalls)

(* ------------------------------ strings -------------------------------- *)

\* Characters matched by the regular expression class \s and removed by
\* str.strip().
Whitespace == {" ", "\t", "\n"}

RECURSIVE LStrip(_)
LStrip(s) ==
  IF s # <<>> /\ Head(s) \in Whitespace THEN LStrip(Tail(s)) ELSE s

RECURSIVE RStrip(_)
RStrip(s) ==
  IF s # <<>> /\ s[Len(s)] \in Whitespace
    THEN RStrip(SubSeq(s, 1, Len(s) - 1))
    ELSE s

\* str.strip()
Strip(s) == RStrip(LStrip(s))

\* sep.join(parts)
RECURSIVE Join(_, _)
Join(sep, parts) ==
  IF parts = <<>> THEN <<>>
  ELSE IF Len(parts) = 1 THEN parts[1]
  ELSE parts[1] \o sep \o Join(sep, Tail(parts))

(* ----------------------- the engine's return values -------------------- *)

\* Recognized strings a text box can carry.
Texts == { <<"a">>, <<"b", " ">> }

\* A text box is [[points], [text, confidence]], or a value the guard of the
\* inner loop skips: None, an empty list or a list of fewer than two items.
SkippedBox == [kind |-> "skipped", text |-> <<>>]

TextBox(s) == [kind |-> "ok", text |-> s]

Boxes == {SkippedBox} \cup { TextBox(s) : s \in Texts }

SeqsUpTo(S, n) == UNION { [1..k -> S] : k \in 0..n }

\* A group (one page's lines) is None or a list of text boxes.
NoneGroup == [isNone |-> TRUE, boxes |-> <<>>]

ListGroup(bs) == [isNone |-> FALSE, boxes |-> bs]

Groups == {NoneGroup} \cup { ListGroup(bs) : bs \in SeqsUpTo(Boxes, MaxRegions) }

\* What self.ocr.ocr(image, cls=True) hands back: None or a list of groups,
\* or an exception raised by the engine.
NoneResult == [kind |-> "ret", isNone |-> TRUE, groups |-> <<>>, exc |-> "none"]

ListResult(gs) == [kind |-> "ret", isNone |-> FALSE, groups |-> gs, exc |-> "none"]

Raised(e) == [kind |-> "raise", isNone |-> FALSE, groups |-> <<>>, exc |-> e]

EngineExceptions == {"RuntimeError", "ValueError"}

RECURSIVE BoxCount(_)
BoxCount(gs) ==
  IF gs = <<>> THEN 0 ELSE Len(Head(gs).boxes) + BoxCount(Tail(gs))

Returns ==
  {NoneResult} \cup
  { ListResult(gs) : gs \in { x \in SeqsUpTo(Groups, MaxGroups) : BoxCount(x) <= MaxRegions } }

Outcomes == Returns \cup { Raised(e) : e \in EngineExceptions }

\* No engine call made yet.
NoOutcome == [kind |-> "unset", isNone |-> FALSE, groups |-> <<>>, exc |-> "none"]

\* The outcomes the engine produces while several threads use the gateway.
SharedOutcomes ==
  { NoneResult,
    ListResult(<< ListGroup(<< TextBox(<<"a">>) >>) >>),
    Raised("RuntimeError") }

(* --------------------------- extract_text ------------------------------ *)

\* What a call hands to its caller: a string or a propagated exception.
StrValue(s) == [kind |-> "str", text |-> s, exc |-> "none"]

ExcValue(e) == [kind |-> "exc", text |-> <<>>, exc |-> e]

NoValue == [kind |-> "unset", text |-> <<>>, exc |-> "none"]

\* A variant that tests only `not result`.
IsEmptyResult_TopOnly(r) ==
  \/ r.isNone
  \/ r.groups = <<>>

\* `not result or not result[0]`
IsEmptyResult(r) ==
  \/ r.isNone
  \/ r.groups = <<>>
  \/ r.groups[1].isNone
  \/ r.groups[1].boxes = <<>>

\* `if text_box and len(text_box) >= 2`
BoxAccepted(b) == b.kind = "ok"

\* The inner loop over one group: the texts it appends.
RECURSIVE GroupTexts(_)
GroupTexts(bs) ==
  IF bs = <<>> THEN <<>>
  ELSE (IF BoxAccepted(Head(bs)) THEN << Head(bs).text >> ELSE <<>>)
       \o GroupTexts(Tail(bs))

\* The outer loop: iterating a None group raises TypeError.
RECURSIVE CollectTexts(_, _)
CollectTexts(gs, texts) ==
  IF gs = <<>> THEN [raised |-> FALSE, texts |-> texts]
  ELSE IF Head(gs).isNone THEN [raised |-> TRUE, texts |-> texts]
  ELSE CollectTexts(Tail(gs), texts \o GroupTexts(Head(gs).boxes))

\* The statements of extract_text after the engine has returned `r`.
ExtractText(r) ==
  IF IsEmptyResult(r) THEN StrValue(<<>>)
  ELSE LET c == CollectTexts(r.groups, <<>>)
       IN  IF c.raised THEN ExcValue("TypeError")
           ELSE StrValue(Strip(Join(<<" ">>, c.texts)))

(* ------------------------------ state ---------------------------------- *)

VARIABLES
  instance,     \* OCREngine._instance: 0 is None, else the wrapper object
  objInit,      \* per wrapper object: its _initialized attribute
  objOcr,       \* per wrapper object: its ocr attribute (0: not set)
  lock,         \* OCREngine._lock: 0 is free, else the holding thread
  nObjects,     \* wrapper objects allocated by super().__new__(cls)
  paddleCalls,  \* invocations of the PaddleOCR constructor
  pc,           \* per thread: the statement it executes next
  self,         \* per thread: the object __new__ returned to it
  eng,          \* per thread: the engine its PaddleOCR(...) call builds
  calls,        \* per thread: OCREngine() requests started
  exts,         \* per thread: extract_text calls started
  engineCalls,  \* per thread: invocations of self.ocr.ocr
  handle,       \* per thread: the self.ocr it invoked last
  result,       \* per thread: extract_text's local `result`
  out,          \* per thread: what its last call handed to its caller
  imgArg,       \* preprocess_image: the argument image_path and the file behind it
  imgPc,        \* preprocess_image: the statement executed next
  image,        \* preprocess_image: the local `image`
  mask,         \* preprocess_image: the locals `gray` and `shadow_mask`
  lab,          \* preprocess_image: the locals `lab` and `l, a, b`
  channels,     \* preprocess_image: the locals `l, a, b`: the calls applied to each
  imgStages,    \* preprocess_image: the cv2 / numpy stages executed, in order
  imgErr,       \* preprocess_image: the exception raised, with its message
  txtFn,        \* post-processing: the function called
  txtIn,        \* post-processing: its argument `text`
  txtSteps,     \* post-processing: `text` after each re.sub / strip, in order
  txtOut,       \* post-processing: the value returned
  corrections,  \* apply_ocr_corrections: its argument `corrections`
  txtPc,        \* apply_ocr_corrections: the statement executed next
  txtErr        \* post-processing: the exception raised

gatewayVars == <<instance, objInit, objOcr, lock, nObjects, paddleCalls>>

threadVars == <<pc, self, eng, calls, exts, engineCalls, handle, result, out>>

imgVars == <<imgArg, imgPc, image, mask, lab, channels, imgStages, imgErr>>

corrVars == <<corrections, txtPc, txtErr>>

txtVars == <<txtFn, txtIn, txtSteps, txtOut, corrVars>>

pipeVars == <<imgVars, txtVars>>

vars == <<gatewayVars, threadVars, pipeVars>>

\* The state at import time: class attributes of OCREngine, no caller yet.
GatewayInit ==
  /\ instance = 0
  /\ objInit = [o \in Objects |-> "unset"]
  /\ objOcr = [o \in Objects |-> 0]
  /\ lock = 0
  /\ nObjects = 0
  /\ paddleCalls = 0
  /\ pc = [t \in Threads |-> "idle"]
  /\ self = [t \in Threads |-> 0]
  /\ eng = [t \in Threads |-> 0]
  /\ calls = [t \in Threads |-> 0]
  /\ exts = [t \in Threads |-> 0]
  /\ engineCalls = [t \in Threads |-> 0]
  /\ handle = [t \in Threads |-> 0]
  /\ result = [t \in Threads |-> NoOutcome]
  /\ out = [t \in Threads |-> NoValue]

\* A thread is between calls.
AtRest(t) == pc[t] \in {"idle", "ready", "failed", "ctor_raised"}

(* ------------------------- OCREngine.__new__ --------------------------- *)

\* A caller evaluates OCREngine(): the unlocked `if cls._instance is None`.
\* The caller has let go of what its previous call gave it.
NewCheckFirst(t, limit) ==
  /\ AtRest(t)
  /\ calls[t] < limit
  /\ calls' = [calls EXCEPT ![t] = @ + 1]
  /\ pc' = [pc EXCEPT ![t] = IF instance = 0 THEN "new_acquire" ELSE "new_return"]
  /\ result' = [result EXCEPT ![t] = NoOutcome]
  /\ out' = [out EXCEPT ![t] = NoValue]
  /\ UNCHANGED <<gatewayVars, self, eng, exts, engineCalls, handle>>
  /\ UNCHANGED pipeVars

\* `with cls._lock:` blocks until the lock is free.
NewAcquire(t) ==
  /\ pc[t] = "new_acquire"
  /\ lock = 0
  /\ lock' = t
  /\ pc' = [pc EXCEPT ![t] = "new_check2"]
  /\ UNCHANGED <<instance, objInit, objOcr, nObjects, paddleCalls,
                 self, eng, calls, exts, engineCalls, handle, result, out>>
  /\ UNCHANGED pipeVars

\* A variant without the second check: allocate whenever the lock is held.
NewCheckSecond_NoRecheck(t) ==
  /\ pc[t] = "new_check2"
  /\ pc' = [pc EXCEPT ![t] = "new_alloc"]
  /\ UNCHANGED <<gatewayVars, self, eng, calls, exts, engineCalls, handle, result, out>>
  /\ UNCHANGED pipeVars

\* The locked `if cls._instance is None`.
NewCheckSecond(t) ==
  /\ pc[t] = "new_check2"
  /\ pc' = [pc EXCEPT ![t] = IF instance = 0 THEN "new_alloc" ELSE "new_release"]
  /\ UNCHANGED <<gatewayVars, self, eng, calls, exts, engineCalls, handle, result, out>>
  /\ UNCHANGED pipeVars

\* `cls._instance = super().__new__(cls)`: a fresh object, with no attributes.
NewAllocate(t) ==
  /\ pc[t] = "new_alloc"
  /\ nObjects' = nObjects + 1
  /\ instance' = nObjects'
  /\ pc' = [pc EXCEPT ![t] = "new_setflag"]
  /\ UNCHANGED <<objInit, objOcr, lock, paddleCalls,
                 self, eng, calls, exts, engineCalls, handle, result, out>>
  /\ UNCHANGED pipeVars

\* `cls._instance._initialized = False`
NewSetFlag(t) ==
  /\ pc[t] = "new_setflag"
  /\ objInit' = [objInit EXCEPT ![instance] = "false"]
  /\ pc' = [pc EXCEPT ![t] = "new_release"]
  /\ UNCHANGED <<instance, objOcr, lock, nObjects, paddleCalls,
                 self, eng, calls, exts, engineCalls, handle, result, out>>
  /\ UNCHANGED pipeVars

\* A variant whose `with` block is left without releasing the lock, as a
\* bare cls._lock.acquire() with no release would.
NewRelease_KeepsLock(t) ==
  /\ pc[t] = "new_release"
  /\ pc' = [pc EXCEPT ![t] = "new_return"]
  /\ UNCHANGED <<gatewayVars, self, eng, calls, exts, engineCalls, handle, result, out>>
  /\ UNCHANGED pipeVars

\* Leaving the `with` block releases the lock.
NewRelease(t) ==
  /\ pc[t] = "new_release"
  /\ lock' = 0
  /\ pc' = [pc EXCEPT ![t] = "new_return"]
  /\ UNCHANGED <<instance, objInit, objOcr, nObjects, paddleCalls,
                 self, eng, calls, exts, engineCalls, handle, result, out>>
  /\ UNCHANGED pipeVars

\* `return cls._instance`; type.__call__ then runs __init__ on that object.
NewReturn(t) ==
  /\ pc[t] = "new_return"
  /\ self' = [self EXCEPT ![t] = instance]
  /\ pc' = [pc EXCEPT ![t] = "init_check"]
  /\ UNCHANGED <<gatewayVars, eng, calls, exts, engineCalls, handle, result, out>>
  /\ UNCHANGED pipeVars

(* ------------------------- OCREngine.__init__ -------------------------- *)

\* A variant that ignores a True flag and always goes on to build an engine.
InitCheck_AlwaysConstruct(t) ==
  /\ pc[t] = "init_check"
  /\ pc' = [pc EXCEPT ![t] =
              IF objInit[self[t]] = "unset" THEN "failed" ELSE "init_construct"]
  /\ UNCHANGED <<gatewayVars, self, eng, calls, exts, engineCalls, handle, result, out>>
  /\ UNCHANGED pipeVars

\* `if self._initialized: return`; reading an attribute the object does not
\* have yet raises AttributeError.
InitCheck(t) ==
  /\ pc[t] = "init_check"
  /\ pc' = [pc EXCEPT ![t] =
              CASE objInit[self[t]] = "unset" -> "failed"
                [] objInit[self[t]] = "true"  -> "ready"
                [] OTHER                      -> "init_construct"]
  /\ UNCHANGED <<gatewayVars, self, eng, calls, exts, engineCalls, handle, result, out>>
  /\ UNCHANGED pipeVars

\* The call PaddleOCR(use_angle_cls=True, lang="en") starts loading a model.
InitConstruct(t) ==
  /\ pc[t] = "init_construct"
  /\ paddleCalls' = paddleCalls + 1
  /\ eng' = [eng EXCEPT ![t] = paddleCalls']
  /\ pc' = [pc EXCEPT ![t] = "init_store"]
  /\ UNCHANGED <<instance, objInit, objOcr, lock, nObjects,
                 self, calls, exts, engineCalls, handle, result, out>>
  /\ UNCHANGED pipeVars

\* The constructor returns and `self.ocr = ...` stores the engine.
InitStoreEngine(t) ==
  /\ pc[t] = "init_store"
  /\ objOcr' = [objOcr EXCEPT ![self[t]] = eng[t]]
  /\ pc' = [pc EXCEPT ![t] = "init_setflag"]
  /\ UNCHANGED <<instance, objInit, lock, nObjects, paddleCalls,
                 self, eng, calls, exts, engineCalls, handle, result, out>>
  /\ UNCHANGED pipeVars

\* A variant that marks the gateway initialized although the constructor
\* raised, as a `finally: self._initialized = True` would.
InitConstructRaise_MarksInitialized(t, e) ==
  /\ pc[t] = "init_store"
  /\ objInit' = [objInit EXCEPT ![self[t]] = "true"]
  /\ out' = [out EXCEPT ![t] = ExcValue(e)]
  /\ pc' = [pc EXCEPT ![t] = "ctor_raised"]
  /\ UNCHANGED <<instance, objOcr, lock, nObjects, paddleCalls,
                 self, eng, calls, exts, engineCalls, handle, result>>
  /\ UNCHANGED pipeVars

\* The constructor PaddleOCR(...) raises `e`: __init__ catches nothing, the
\* two assignments after the call are skipped and OCREngine() raises `e`.
InitConstructRaise(t, e) ==
  /\ pc[t] = "init_store"
  /\ out' = [out EXCEPT ![t] = ExcValue(e)]
  /\ pc' = [pc EXCEPT ![t] = "ctor_raised"]
  /\ UNCHANGED <<gatewayVars, self, eng, calls, exts, engineCalls, handle, result>>
  /\ UNCHANGED pipeVars

\* `self._initialized = True`
InitSetFlag(t) ==
  /\ pc[t] = "init_setflag"
  /\ objInit' = [objInit EXCEPT ![self[t]] = "true"]
  /\ pc' = [pc EXCEPT ![t] = "ready"]
  /\ UNCHANGED <<instance, objOcr, lock, nObjects, paddleCalls,
                 self, eng, calls, exts, engineCalls, handle, result, out>>
  /\ UNCHANGED pipeVars

(* ----------------------- OCREngine.extract_text ------------------------ *)

\* A variant that serializes recognition: it takes the class lock first.
ExtractInvoke_Locked(t) ==
  /\ pc[t] = "ready"
  /\ exts[t] < calls[t]
  /\ lock = 0
  /\ lock' = t
  /\ exts' = [exts EXCEPT ![t] = @ + 1]
  /\ engineCalls' = [engineCalls EXCEPT ![t] = @ + 1]
  /\ handle' = [handle EXCEPT ![t] = objOcr[self[t]]]
  /\ result' = [result EXCEPT ![t] = NoOutcome]
  /\ out' = [out EXCEPT ![t] = NoValue]
  /\ pc' = [pc EXCEPT ![t] = "in_ocr"]
  /\ UNCHANGED <<instance, objInit, objOcr, nObjects, paddleCalls, self, eng, calls>>
  /\ UNCHANGED pipeVars

\* `self.ocr.ocr(image, cls=True)`: the engine is entered, no lock taken.
ExtractInvoke(t) ==
  /\ pc[t] = "ready"
  /\ exts[t] < calls[t]
  /\ exts' = [exts EXCEPT ![t] = @ + 1]
  /\ engineCalls' = [engineCalls EXCEPT ![t] = @ + 1]
  /\ handle' = [handle EXCEPT ![t] = objOcr[self[t]]]
  /\ result' = [result EXCEPT ![t] = NoOutcome]
  /\ out' = [out EXCEPT ![t] = NoValue]
  /\ pc' = [pc EXCEPT ![t] = "in_ocr"]
  /\ UNCHANGED <<gatewayVars, self, eng, calls>>
  /\ UNCHANGED pipeVars

\* The engine call ends: it returns `r`, or raises.
EngineReturn(t, r) ==
  /\ pc[t] = "in_ocr"
  /\ result' = [result EXCEPT ![t] = r]
  /\ pc' = [pc EXCEPT ![t] = "have_result"]
  /\ UNCHANGED <<gatewayVars, self, eng, calls, exts, engineCalls, handle, out>>
  /\ UNCHANGED pipeVars

\* A variant that catches the engine's exception and returns "".
ExtractFinish_Swallow(t) ==
  /\ pc[t] = "have_result"
  /\ out' = [out EXCEPT ![t] =
               IF result[t].kind = "raise" THEN StrValue(<<>>)
               ELSE ExtractText(result[t])]
  /\ pc' = [pc EXCEPT ![t] = "ready"]
  /\ UNCHANGED <<gatewayVars, self, eng, calls, exts, engineCalls, handle, result>>
  /\ UNCHANGED pipeVars

\* The rest of extract_text; an engine exception is not caught.
ExtractFinish(t) ==
  /\ pc[t] = "have_result"
  /\ out' = [out EXCEPT ![t] =
               IF result[t].kind = "raise" THEN ExcValue(result[t].exc)
               ELSE ExtractText(result[t])]
  /\ pc' = [pc EXCEPT ![t] = "ready"]
  /\ UNCHANGED <<gatewayVars, self, eng, calls, exts, engineCalls, handle, result>>
  /\ UNCHANGED pipeVars

(* --------------------------- preprocess_image -------------------------- *)

\* cv2.threshold(gray, 150, 255, cv2.THRESH_BINARY): threshold and maxval.
ShadowThreshold == 150

MaxSample == 255

\* Sample values the decoded file may hold, on both sides of the threshold.
SampleLevels == {0, ShadowThreshold, ShadowThreshold + 1, MaxSample}

\* Channels a raster file may store: grey, colour, colour with alpha.
FileChannels == {1, 3, 4}

\* An array: its shape, its dtype and the interval its samples lie in.
Array(h, w, c, lo, hi) ==
  [h |-> h, w |-> w, c |-> c, dtype |-> "uint8", lo |-> lo, hi |-> hi]

NoArray == [h |-> 0, w |-> 0, c |-> 0, dtype |-> "none", lo |-> 0, hi |-> 0]

\* The file behind a path: no file, a file cv2 cannot decode, or an image.
SampleRanges == { r \in SampleLevels \X SampleLevels : r[1] <= r[2] }

ImageFiles ==
  { [exists |-> TRUE, decodable |-> TRUE, h |-> h, w |-> w, c |-> c,
     lo |-> r[1], hi |-> r[2]] :
      h \in 1..MaxDim, w \in 1..MaxDim, c \in FileChannels, r \in SampleRanges }

NoFile ==
  [exists |-> FALSE, decodable |-> FALSE, h |-> 0, w |-> 0, c |-> 0, lo |-> 0, hi |-> 0]

BadFile ==
  [exists |-> TRUE, decodable |-> FALSE, h |-> 0, w |-> 0, c |-> 0, lo |-> 0, hi |-> 0]

Files == ImageFiles \cup {NoFile, BadFile}

\* The argument: a str or another object (an int, a pathlib.Path), and the
\* file it names.
ImgArgs == [isStr : BOOLEAN, file : Files]

\* cv2.threshold with THRESH_BINARY, on one sample.
ThresholdBinary(v) == IF v > ShadowThreshold THEN MaxSample ELSE 0

\* Every failure preprocess_image raises itself is a FileNotFoundError.
RaiseNotFound(msg) == [type |-> "FileNotFoundError", msg |-> msg]

\* A cv2 call rejecting its argument.
RaiseCv(f) == [type |-> "cv2.error", msg |-> f]

NoError == [type |-> "none", msg |-> ""]

imgFrame == <<gatewayVars, threadVars, txtVars>>

ImgRaise(e) ==
  /\ imgPc' = "raised"
  /\ imgErr' = e
  /\ UNCHANGED <<imgArg, image, mask, lab, channels, imgStages>>

\* A variant raising TypeError for a non-str argument.
PreCheckType_TypeError ==
  /\ imgPc = "check_type"
  /\ IF ~imgArg.isStr
       THEN ImgRaise([type |-> "TypeError", msg |-> "Image path must be a string"])
       ELSE /\ imgPc' = "check_exists"
            /\ UNCHANGED <<imgArg, image, mask, lab, channels, imgStages, imgErr>>
  /\ UNCHANGED imgFrame

\* `if not isinstance(image_path, str): raise FileNotFoundError(...)`
PreCheckType ==
  /\ imgPc = "check_type"
  /\ IF ~imgArg.isStr
       THEN ImgRaise(RaiseNotFound("Image path must be a string"))
       ELSE /\ imgPc' = "check_exists"
            /\ UNCHANGED <<imgArg, image, mask, lab, channels, imgStages, imgErr>>
  /\ UNCHANGED imgFrame

\* `if not path.exists(): raise FileNotFoundError(...)`
PreCheckExists ==
  /\ imgPc = "check_exists"
  /\ IF ~imgArg.file.exists
       THEN ImgRaise(RaiseNotFound("Image file not found"))
       ELSE /\ imgPc' = "imread"
            /\ UNCHANGED <<imgArg, image, mask, lab, channels, imgStages, imgErr>>
  /\ UNCHANGED imgFrame

\* `image = cv2.imread(str(image_path))`: None when the file cannot be
\* decoded, else a 3-channel BGR array whatever the file stores.
PreRead ==
  /\ imgPc = "imread"
  /\ IF ~imgArg.file.decodable
       THEN ImgRaise(RaiseNotFound("Failed to read image file"))
       ELSE /\ image' = Array(imgArg.file.h, imgArg.file.w, 3,
                              imgArg.file.lo, imgArg.file.hi)
            /\ imgStages' = Append(imgStages, "imread")
            /\ imgPc' = "to_rgb"
            /\ UNCHANGED <<imgArg, mask, lab, channels, imgErr>>
  /\ UNCHANGED imgFrame

\* One cv2 stage: `requires` is what the call accepts, else cv2.error.
ImgStage(at, name, requires, next, image2, mask2, lab2, channels2) ==
  /\ imgPc = at
  /\ IF ~requires
       THEN ImgRaise(RaiseCv(name))
       ELSE /\ image' = image2
            /\ mask' = mask2
            /\ lab' = lab2
            /\ channels' = channels2
            /\ imgStages' = Append(imgStages, name)
            /\ imgPc' = next
            /\ UNCHANGED <<imgArg, imgErr>>
  /\ UNCHANGED imgFrame

\* `image = cv2.cvtColor(image, cv2.COLOR_BGR2RGB)`
PreToRGB ==
  ImgStage("to_rgb", "BGR2RGB", image.c \in {3, 4}, "gray",
           [image EXCEPT !.c = 3], mask, lab, channels)

\* A variant storing the grey image in `image` instead of `gray`.
PreGray_OverwritesImage ==
  ImgStage("gray", "RGB2GRAY", image.c \in {3, 4}, "threshold",
           [image EXCEPT !.c = 1], [image EXCEPT !.c = 1], lab, channels)

\* `gray = cv2.cvtColor(image, cv2.COLOR_RGB2GRAY)`
PreGray ==
  ImgStage("gray", "RGB2GRAY", image.c \in {3, 4}, "threshold",
           image, [image EXCEPT !.c = 1], lab, channels)

\* `_, shadow_mask = cv2.threshold(gray, 150, 255, cv2.THRESH_BINARY)`
PreThreshold ==
  ImgStage("threshold", "threshold", mask.c = 1, "close",
           image,
           [mask EXCEPT !.lo = ThresholdBinary(mask.lo), !.hi = ThresholdBinary(mask.hi)],
           lab, channels)

\* `shadow_mask = cv2.morphologyEx(shadow_mask, cv2.MORPH_CLOSE, kernel)`
PreClose ==
  ImgStage("close", "morph_close", TRUE, "dilate", image, mask, lab, channels)

\* `shadow_mask = cv2.dilate(shadow_mask, kernel, iterations=1)`
PreDilate ==
  ImgStage("dilate", "dilate", TRUE, "inpaint", image, mask, lab, channels)

\* `shadow_mask = cv2.cvtColor(shadow_mask, cv2.COLOR_GRAY2RGB)` and
\* `image = cv2.inpaint(image, cv2.cvtColor(shadow_mask, cv2.COLOR_RGB2GRAY),
\* 3, cv2.INPAINT_TELEA)`: the mask handed over is 1-channel again and must
\* have the image's size; the output has the image's shape, its samples
\* saturated to 8 bits.
PreInpaint ==
  ImgStage("inpaint", "inpaint",
           mask.c = 1 /\ mask.h = image.h /\ mask.w = image.w /\ image.c \in {1, 3},
           "to_lab",
           [image EXCEPT !.lo = 0, !.hi = MaxSample],
           [mask EXCEPT !.c = 3],
           lab, channels)

\* The channels before cv2.split, and as cv2.split hands them out.
NoChannels == [split |-> FALSE, l |-> <<>>, a |-> <<>>, b |-> <<>>]

SplitChannels == [split |-> TRUE, l |-> <<>>, a |-> <<>>, b |-> <<>>]

\* `lab = cv2.cvtColor(image, cv2.COLOR_RGB2LAB)` and `l, a, b = cv2.split(lab)`
PreToLab ==
  ImgStage("to_lab", "RGB2LAB", image.c = 3, "clahe",
           image, mask, [image EXCEPT !.lo = 0, !.hi = MaxSample], SplitChannels)

\* A variant equalizing the three channels.
PreClahe_AllChannels ==
  ImgStage("clahe", "clahe", lab.c = 3, "to_rgb_back", image, mask, lab,
           [channels EXCEPT !.l = Append(@, "clahe"), !.a = Append(@, "clahe"),
                            !.b = Append(@, "clahe")])

\* `l = clahe.apply(l)`: one channel in, one channel of the same size out;
\* `a` and `b` are not assigned.
PreClahe ==
  ImgStage("clahe", "clahe", lab.c = 3, "to_rgb_back", image, mask, lab,
           [channels EXCEPT !.l = Append(@, "clahe")])

\* `lab = cv2.merge([l, a, b])` and
\* `image = cv2.cvtColor(lab, cv2.COLOR_LAB2RGB)`
PreFromLab ==
  ImgStage("to_rgb_back", "LAB2RGB", lab.c = 3, "clip", lab, mask, lab, channels)

\* numpy.clip on one bound of the sample interval.
Clip(v) == IF v < 0 THEN 0 ELSE IF v > MaxSample THEN MaxSample ELSE v

\* `image = np.clip(image, 0, 255).astype(np.uint8)` and `return image`
PreClip ==
  ImgStage("clip", "clip", TRUE, "returned",
           [image EXCEPT !.lo = Clip(image.lo), !.hi = Clip(image.hi), !.dtype = "uint8"],
           mask, lab, channels)

NextPre ==
  \/ PreCheckType
  \/ PreCheckExists
  \/ PreRead
  \/ PreToRGB
  \/ PreGray
  \/ PreThreshold
  \/ PreClose
  \/ PreDilate
  \/ PreInpaint
  \/ PreToLab
  \/ PreClahe
  \/ PreFromLab
  \/ PreClip

(* --------------------------- post_processing --------------------------- *)

\* Characters of the texts handed to the post-processing functions.
Upper == {"A", "B"}

Alphabet == {"_", " ", "\n", ".", "a"} \cup Upper

Strings == SeqsUpTo(Alphabet, MaxLen)

\* The index after the run of whitespace that starts at i (i itself if
\* s[i] is no whitespace): what a greedy \s* or \s+ consumes.
RECURSIVE SkipWhitespace(_, _)
SkipWhitespace(s, i) ==
  IF i <= Len(s) /\ s[i] \in Whitespace THEN SkipWhitespace(s, i + 1) ELSE i

\* A variant matching exactly one whitespace character, as _\s([A-Z]).
SentenceBreakEnd_OneSpace(s, i) ==
  IF s[i] = "_" /\ i + 2 <= Len(s) /\ s[i + 1] \in Whitespace /\ s[i + 2] \in Upper
    THEN i + 2
    ELSE 0

\* A variant matching zero or more whitespace characters, as _\s*([A-Z]).
SentenceBreakEnd_OptionalSpace(s, i) ==
  LET k == SkipWhitespace(s, i + 1)
  IN  IF s[i] = "_" /\ k <= Len(s) /\ s[k] \in Upper THEN k ELSE 0

\* The pattern _\s+([A-Z]) tried at index i: the index of the uppercase
\* letter that ends the match, or 0 when there is no match at i.
SentenceBreakEnd(s, i) ==
  LET k == SkipWhitespace(s, i + 1)
  IN  IF s[i] = "_" /\ k > i + 1 /\ k <= Len(s) /\ s[k] \in Upper THEN k ELSE 0

\* re.sub(r'_\s+([A-Z])', r'. \1', text), scanning from index i: leftmost
\* matches, not overlapping.
RECURSIVE SubSentenceBreaks(_, _)
SubSentenceBreaks(s, i) ==
  IF i > Len(s) THEN <<>>
  ELSE LET e == SentenceBreakEnd(s, i)
       IN  IF e > 0 THEN <<".", " ", s[e]>> \o SubSentenceBreaks(s, e + 1)
           ELSE <<s[i]>> \o SubSentenceBreaks(s, i + 1)

\* The positions where $ matches without re.MULTILINE: the end of the
\* string (index Len(s) + 1) and the place before a final newline.
DollarAt(s, i) ==
  \/ i = Len(s) + 1
  \/ i = Len(s) /\ s[i] = "\n"

\* The index after the run of underscores that starts at i.
RECURSIVE SkipUnderscores(_, _)
SkipUnderscores(s, i) ==
  IF i <= Len(s) /\ s[i] = "_" THEN SkipUnderscores(s, i + 1) ELSE i

\* A variant replacing the last underscore only, as _$.
SubTrailingUnderscores_OnlyLast(s) ==
  IF s # <<>> /\ s[Len(s)] = "_"
    THEN SubSeq(s, 1, Len(s) - 1) \o <<".">>
  ELSE IF Len(s) >= 2 /\ s[Len(s)] = "\n" /\ s[Len(s) - 1] = "_"
    THEN SubSeq(s, 1, Len(s) - 2) \o <<".", "\n">>
  ELSE s

\* re.sub(r'_+$', '.', text)
SubTrailingUnderscores(s) ==
  LET starts == { i \in 1..Len(s) :
                    s[i] = "_" /\ DollarAt(s, SkipUnderscores(s, i)) }
  IN  IF starts = {} THEN s
      ELSE LET i == CHOOSE x \in starts : \A y \in starts : x <= y
               k == SkipUnderscores(s, i)
           IN  SubSeq(s, 1, i - 1) \o <<".">> \o SubSeq(s, k, Len(s))

\* re.sub(r'_(\s*)$', r'.\1', text): the greedy \s* runs to the end of the
\* string whenever the pattern matches.
SubUnderscoreBeforeSpaces(s) ==
  LET starts == { i \in 1..Len(s) :
                    s[i] = "_" /\ SkipWhitespace(s, i + 1) = Len(s) + 1 }
  IN  IF starts = {} THEN s
      ELSE LET i == CHOOSE x \in starts : \A y \in starts : x <= y
           IN  SubSeq(s, 1, i - 1) \o <<".">> \o SubSeq(s, i + 1, Len(s))

\* correct_punctuation: `text` after each of its three re.sub calls.
PunctuationSteps(s) ==
  LET r1 == SubSentenceBreaks(s, 1)
      r2 == SubTrailingUnderscores(r1)
      r3 == SubUnderscoreBeforeSpaces(r2)
  IN  <<r1, r2, r3>>

CorrectPunctuation(s) == PunctuationSteps(s)[3]

\* A variant collapsing runs of spaces only, as re.sub(r' +', ' ', text).
RECURSIVE CollapseWhitespace_SpacesOnly(_, _)
CollapseWhitespace_SpacesOnly(s, i) ==
  IF i > Len(s) THEN <<>>
  ELSE IF s[i] = " " /\ i < Len(s) /\ s[i + 1] = " "
         THEN CollapseWhitespace_SpacesOnly(s, i + 1)
         ELSE <<s[i]>> \o CollapseWhitespace_SpacesOnly(s, i + 1)

\* re.sub(r'\s+', ' ', text), scanning from index i.
RECURSIVE CollapseWhitespace(_, _)
CollapseWhitespace(s, i) ==
  IF i > Len(s) THEN <<>>
  ELSE IF s[i] \in Whitespace
         THEN <<" ">> \o CollapseWhitespace(s, SkipWhitespace(s, i))
         ELSE <<s[i]>> \o CollapseWhitespace(s, i + 1)

\* clean_ocr_text: `text` after correct_punctuation, re.sub and strip.
CleanSteps(s) ==
  LET r1 == CorrectPunctuation(s)
      r2 == CollapseWhitespace(r1, 1)
      r3 == Strip(r2)
  IN  <<r1, r2, r3>>

CleanOcrText(s) == CleanSteps(s)[3]

txtFrame == <<gatewayVars, threadVars, imgVars>>

\* A call correct_punctuation(text).
CallCorrectPunctuation ==
  /\ txtFn = "none"
  /\ txtFn' = "correct_punctuation"
  /\ txtSteps' = PunctuationSteps(txtIn)
  /\ txtOut' = CorrectPunctuation(txtIn)
  /\ UNCHANGED <<txtIn, corrVars, txtFrame>>

\* A call clean_ocr_text(text).
CallCleanOcrText ==
  /\ txtFn = "none"
  /\ txtFn' = "clean_ocr_text"
  /\ txtSteps' = CleanSteps(txtIn)
  /\ txtOut' = CleanOcrText(txtIn)
  /\ UNCHANGED <<txtIn, corrVars, txtFrame>>

\* A second call clean_ocr_text(text), on what the first call returned.
CallCleanOcrTextAgain ==
  /\ txtFn = "clean_ocr_text"
  /\ txtFn' = "clean_ocr_text twice"
  /\ txtSteps' = txtSteps \o CleanSteps(txtOut)
  /\ txtOut' = CleanOcrText(txtOut)
  /\ UNCHANGED <<txtIn, corrVars, txtFrame>>

NextPost ==
  \/ CallCorrectPunctuation
  \/ CallCleanOcrText
  \/ CallCleanOcrTextAgain

(* ------------------------ apply_ocr_corrections ------------------------ *)

\* Characters of the texts handed to apply_ocr_corrections.
CorrAlphabet == {"a", "A", "b", " "}

CorrTexts == SeqsUpTo(CorrAlphabet, MaxTextLen)

\* The keys and the values of the mappings handed to apply_ocr_corrections.
CorrKeys == { <<>>, <<"a">>, <<"b">> }

CorrValues == { <<"b">>, <<"c">>, <<"\\", "n">>, <<"\\", "1">> }

Entries == [key : CorrKeys, val : CorrValues]

\* A dict holds one value per key, and iterates in insertion order.
DistinctKeys(es) ==
  \A i, j \in DOMAIN es : i # j => es[i].key # es[j].key

\* The argument `corrections`: None (the default) or a dict.
NoneCorrections == [isNone |-> TRUE, entries |-> <<>>]

DictCorrections(es) == [isNone |-> FALSE, entries |-> es]

Corrections ==
  {NoneCorrections} \cup
  { DictCorrections(es) : es \in { m \in SeqsUpTo(Entries, MaxEntries) : DistinctKeys(m) } }

\* The characters the regular expression class \w matches.
WordChars == {"a", "b", "c", "n", "A", "B", "1", "_"}

AsciiLetters == {"a", "b", "c", "n", "A", "B"}

Digits == {"1"}

\* Case folding under re.IGNORECASE.
Lower(c) == IF c = "A" THEN "a" ELSE IF c = "B" THEN "b" ELSE c

\* \b at index i: exactly one of s[i - 1] and s[i] is a word character,
\* what lies outside the string counting as none.
WordBoundary(s, i) ==
  LET before == i > 1 /\ s[i - 1] \in WordChars
      after == i <= Len(s) /\ s[i] \in WordChars
  IN  before # after

\* The pattern r'\b' + re.escape(incorrect) + r'\b' with re.IGNORECASE,
\* tried at index i.
MatchesAt(s, key, i) ==
  /\ i + Len(key) - 1 <= Len(s)
  /\ \A j \in 1..Len(key) : Lower(s[i + j - 1]) = Lower(key[j])
  /\ WordBoundary(s, i)
  /\ WordBoundary(s, i + Len(key))

NoTxtError == "none"

TemplateOk(t) == [err |-> NoTxtError, text |-> t]

TemplateError(e) == [err |-> e, text |-> <<>>]

\* re.sub parses `correct` as a replacement template: a backslash starts an
\* escape, \n is a newline, \\ a backslash, \1 a reference to group 1, which
\* the pattern does not have; a backslash before another ASCII letter or at
\* the end is rejected, before any other character it is kept.
RECURSIVE ParseTemplate(_, _)
ParseTemplate(v, i) ==
  LET Emit(cs, next) ==
        LET rest == ParseTemplate(v, next)
        IN  IF rest.err # NoTxtError THEN rest ELSE TemplateOk(cs \o rest.text)
  IN  IF i > Len(v) THEN TemplateOk(<<>>)
      ELSE IF v[i] # "\\" THEN Emit(<<v[i]>>, i + 1)
      ELSE IF i = Len(v) THEN TemplateError("re.error: bad escape (end of pattern)")
      ELSE IF v[i + 1] \in Digits THEN TemplateError("re.error: invalid group reference")
      ELSE IF v[i + 1] = "n" THEN Emit(<<"\n">>, i + 2)
      ELSE IF v[i + 1] = "\\" THEN Emit(<<"\\">>, i + 2)
      ELSE IF v[i + 1] \in AsciiLetters THEN TemplateError("re.error: bad escape")
      ELSE Emit(<<"\\", v[i + 1]>>, i + 2)

\* The matches replaced, scanning from index i: leftmost, not overlapping;
\* an empty match is replaced too and the scan moves on by one character.
RECURSIVE SubMatches(_, _, _, _)
SubMatches(s, key, rep, i) ==
  LET here == IF i <= Len(s) THEN <<s[i]>> ELSE <<>>
  IN  IF i > Len(s) + 1 THEN <<>>
      ELSE IF ~MatchesAt(s, key, i) THEN here \o SubMatches(s, key, rep, i + 1)
      ELSE IF key = <<>> THEN rep \o here \o SubMatches(s, key, rep, i + 1)
      ELSE rep \o SubMatches(s, key, rep, i + Len(key))

\* re.sub(pattern, correct, text, flags=re.IGNORECASE): the template is
\* parsed first, whether or not the pattern matches.
SubCorrection(s, key, val) ==
  LET t == ParseTemplate(val, 1)
  IN  IF t.err # NoTxtError THEN t ELSE TemplateOk(SubMatches(s, key, t.text, 1))

\* The local `text` of apply_ocr_corrections.
CorrText == IF txtSteps = <<>> THEN txtIn ELSE txtSteps[Len(txtSteps)]

\* A call apply_ocr_corrections(text, corrections) and its
\* `if not corrections: return text`.
CorrCheckEmpty ==
  /\ txtFn = "none"
  /\ txtPc = "idle"
  /\ txtFn' = "apply_ocr_corrections"
  /\ IF corrections.isNone \/ corrections.entries = <<>>
       THEN /\ txtOut' = txtIn
            /\ txtPc' = "returned"
       ELSE /\ txtPc' = "loop"
            /\ UNCHANGED txtOut
  /\ UNCHANGED <<txtIn, txtSteps, corrections, txtErr, txtFrame>>

\* A variant applying every entry to the text the function was called with.
CorrEntry_OnArgument ==
  /\ txtPc = "loop"
  /\ Len(txtSteps) < Len(corrections.entries)
  /\ LET e == corrections.entries[Len(txtSteps) + 1]
         r == SubCorrection(txtIn, e.key, e.val)
     IN  IF r.err # NoTxtError
           THEN /\ txtErr' = r.err
                /\ txtPc' = "raised"
                /\ UNCHANGED txtSteps
           ELSE /\ txtSteps' = Append(txtSteps, r.text)
                /\ UNCHANGED <<txtErr, txtPc>>
  /\ UNCHANGED <<txtFn, txtIn, txtOut, corrections, txtFrame>>

\* One turn of `for incorrect, correct in corrections.items():`, the
\* entries taken in the dict's order: `text = re.sub(...)`, whose error is
\* not caught.
CorrEntry ==
  /\ txtPc = "loop"
  /\ Len(txtSteps) < Len(corrections.entries)
  /\ LET e == corrections.entries[Len(txtSteps) + 1]
         r == SubCorrection(CorrText, e.key, e.val)
     IN  IF r.err # NoTxtError
           THEN /\ txtErr' = r.err
                /\ txtPc' = "raised"
                /\ UNCHANGED txtSteps
           ELSE /\ txtSteps' = Append(txtSteps, r.text)
                /\ UNCHANGED <<txtErr, txtPc>>
  /\ UNCHANGED <<txtFn, txtIn, txtOut, corrections, txtFrame>>

\* The loop is over: `return text`.
CorrReturn ==
  /\ txtPc = "loop"
  /\ Len(txtSteps) = Len(corrections.entries)
  /\ txtOut' = CorrText
  /\ txtPc' = "returned"
  /\ UNCHANGED <<txtFn, txtIn, txtSteps, corrections, txtErr, txtFrame>>

NextCorr ==
  \/ CorrCheckEmpty
  \/ CorrEntry
  \/ CorrReturn

(* --------------------------- specifications ---------------------------- *)

GatewayStep(t, limit) ==
  \/ NewCheckFirst(t, limit)
  \/ NewAcquire(t)
  \/ NewCheckSecond(t)
  \/ NewAllocate(t)
  \/ NewSetFlag(t)
  \/ NewRelease(t)
  \/ NewReturn(t)
  \/ InitCheck(t)
  \/ InitConstruct(t)
  \/ InitStoreEngine(t)
  \/ InitSetFlag(t)
  \/ ExtractInvoke(t)
  \/ ExtractFinish(t)

\* No preprocess_image call is under way.
ImgIdle ==
  /\ imgArg = [isStr |-> TRUE, file |-> NoFile]
  /\ imgPc = "idle"
  /\ image = NoArray
  /\ mask = NoArray
  /\ lab = NoArray
  /\ channels = NoChannels
  /\ imgStages = <<>>
  /\ imgErr = NoError

\* No apply_ocr_corrections call is under way.
CorrIdle ==
  /\ corrections = NoneCorrections
  /\ txtPc = "idle"
  /\ txtErr = NoTxtError

\* No post-processing call is under way.
TxtIdle ==
  /\ txtFn = "none"
  /\ txtIn = <<>>
  /\ txtSteps = <<>>
  /\ txtOut = <<>>
  /\ CorrIdle

Init == GatewayInit /\ ImgIdle /\ TxtIdle

\* Threads call the gateway concurrently.
Next ==
  \E t \in Threads :
    \/ GatewayStep(t, MaxCalls)
    \/ \E r \in SharedOutcomes : EngineReturn(t, r)

Spec == Init /\ [][Next]_vars

\* One caller, one call after the other, any engine outcome.
NextSeq ==
  \/ GatewayStep(1, MaxSeqCalls)
  \/ \E r \in Outcomes : EngineReturn(1, r)

SpecSeq == Init /\ [][NextSeq]_vars

\* One caller, one call after the other; the engine constructor may raise.
NextFail ==
  \/ GatewayStep(1, MaxSeqCalls)
  \/ \E e \in EngineExceptions : InitConstructRaise(1, e)
  \/ \E r \in Outcomes : EngineReturn(1, r)

SpecFail == Init /\ [][NextFail]_vars

\* The steps of an OCREngine() request already under way in thread t: the
\* rest of __new__, then __init__, whose constructor call returns or raises.
RequestStep(t) ==
  \/ NewAcquire(t)
  \/ NewCheckSecond(t)
  \/ NewAllocate(t)
  \/ NewSetFlag(t)
  \/ NewRelease(t)
  \/ NewReturn(t)
  \/ InitCheck(t)
  \/ InitConstruct(t)
  \/ InitStoreEngine(t)
  \/ \E e \in EngineExceptions : InitConstructRaise(t, e)
  \/ InitSetFlag(t)

\* Concurrent callers that only request the gateway, each up to MaxCalls
\* times.  A thread that has started a request keeps being scheduled and a
\* constructor call comes back; when a caller starts a request is its own
\* choice.
NextLive == \E t \in Threads : NewCheckFirst(t, MaxCalls) \/ RequestStep(t)

SpecLive ==
  /\ Init
  /\ [][NextLive]_vars
  /\ \A t \in Threads : WF_vars(RequestStep(t))

\* One call preprocess_image(image_path), for any argument and file.
InitPre ==
  /\ GatewayInit
  /\ TxtIdle
  /\ imgArg \in ImgArgs
  /\ imgPc = "check_type"
  /\ image = NoArray
  /\ mask = NoArray
  /\ lab = NoArray
  /\ channels = NoChannels
  /\ imgStages = <<>>
  /\ imgErr = NoError

SpecPre == InitPre /\ [][NextPre]_vars

\* One post-processing call, for any text.
InitPost ==
  /\ GatewayInit
  /\ ImgIdle
  /\ txtFn = "none"
  /\ txtIn \in Strings
  /\ txtSteps = <<>>
  /\ txtOut = <<>>
  /\ CorrIdle

SpecPost == InitPost /\ [][NextPost]_vars

\* One call apply_ocr_corrections(text, corrections), for any text and dict.
InitCorr ==
  /\ GatewayInit
  /\ ImgIdle
  /\ txtFn = "none"
  /\ txtIn \in CorrTexts
  /\ txtSteps = <<>>
  /\ txtOut = <<>>
  /\ corrections \in Corrections
  /\ txtPc = "idle"
  /\ txtErr = NoTxtError

SpecCorr == InitCorr /\ [][NextCorr]_vars

(* ------------------------ claims on the gateway ------------------------ *)

\* A thread's extract_text call has ended and `result` is what the engine gave.
Extracted(t) == pc[t] = "ready" /\ result[t].kind # "unset"

\* C1: when several threads request OCREngine() for the first time, the
\* PaddleOCR engine is constructed exactly once and every thread that has
\* its engine sees the same handle in engine.ocr.
C1_ConstructedOnceConcurrently ==
  /\ paddleCalls <= 1
  /\ \A t \in Threads : pc[t] = "ready" => paddleCalls = 1 /\ objOcr[self[t]] # 0
  /\ \A t, u \in Threads :
       pc[t] = "ready" /\ pc[u] = "ready" => objOcr[self[t]] = objOcr[self[u]]

\* C2: a single caller issuing OCREngine() k times in a row invokes the
\* PaddleOCR constructor once, on the first request, and every returned
\* object exposes the handle built then.
C2_LoadedOnceSequentially ==
  /\ paddleCalls <= 1
  /\ \A t \in Threads :
       pc[t] \in {"ready", "in_ocr", "have_result"}
         => /\ paddleCalls = 1
            /\ objOcr[self[t]] = 1
  /\ \A t \in Threads : pc[t] # "failed"

C2_Witness ==
  /\ calls[1] = MaxSeqCalls
  /\ MaxSeqCalls >= 2
  /\ pc[1] = "ready"
  /\ paddleCalls = 1
  /\ objOcr[self[1]] = 1

\* C3: at most one wrapper object is ever allocated, every object __new__
\* returns is the one stored in OCREngine._instance, and _instance is never
\* reassigned once it is not None.
C3_SingleWrapper ==
  /\ [](/\ nObjects <= 1
        /\ \A t \in Threads : self[t] # 0 => self[t] = instance)
  /\ [][instance # 0 => instance' = instance]_vars

C3_Witness ==
  /\ nObjects = 1
  /\ instance = 1
  /\ \A t \in Threads : pc[t] = "ready" /\ calls[t] = 1 /\ self[t] = instance

(* ------------------------ claims on extract_text ----------------------- *)

\* The recognized strings of a result, group by group and box by box; a
\* group that is None has no boxes.
RegionTexts(r) ==
  LET OfGroup(g) == IF g.isNone THEN <<>> ELSE
        LET idx == { i \in DOMAIN g.boxes : g.boxes[i].kind = "ok" }
            RECURSIVE Pick(_)
            Pick(i) == IF i > Len(g.boxes) THEN <<>>
                       ELSE (IF i \in idx THEN << g.boxes[i].text >> ELSE <<>>)
                            \o Pick(i + 1)
        IN  Pick(1)
      RECURSIVE Flat(_)
      Flat(i) == IF i > Len(r.groups) THEN <<>>
                 ELSE OfGroup(r.groups[i]) \o Flat(i + 1)
  IN  Flat(1)

\* C4: for an engine result containing text regions, extract_text returns
\* the strings of all regions in the engine's order, joined by one space and
\* stripped.
C4_AllRegionsJoined ==
  \A t \in Threads :
    Extracted(t) /\ result[t].kind = "ret" /\ RegionTexts(result[t]) # <<>>
      => out[t] = StrValue(Strip(Join(<<" ">>, RegionTexts(result[t]))))

\* The engine reported no region: a falsy top-level result, or only groups
\* that are None or empty.
NoRegions(r) ==
  \/ r.isNone
  \/ \A i \in DOMAIN r.groups : r.groups[i].isNone \/ r.groups[i].boxes = <<>>

\* C5: when the engine returns a falsy result or reports no regions,
\* extract_text returns the empty string and raises nothing.
C5_EmptyResultGivesEmptyString ==
  \A t \in Threads :
    Extracted(t) /\ result[t].kind = "ret" /\ NoRegions(result[t])
      => out[t] = StrValue(<<>>)

C5_Witness ==
  \E t \in Threads :
    /\ Extracted(t)
    /\ result[t] = ListResult(<< NoneGroup >>)
    /\ out[t] = StrValue(<<>>)

\* C6: whenever the engine call returns normally, extract_text returns a
\* string and raises nothing, whatever the shape of the result.
C6_AlwaysReturnsString ==
  \A t \in Threads :
    Extracted(t) /\ result[t].kind = "ret" => out[t].kind = "str"

\* C7: an exception raised by the engine reaches the caller of extract_text
\* unmodified, the engine is invoked once per extract_text call, and no step
\* of extract_text changes the instance, the initialized flag or the handle.
C7_EngineFailurePropagates ==
  /\ [](\A t \in Threads :
          /\ engineCalls[t] = exts[t]
          /\ (Extracted(t) /\ result[t].kind = "raise"
                => out[t] = ExcValue(result[t].exc)))
  /\ [][\A t \in Threads :
          pc[t] \in {"in_ocr", "have_result"} /\ pc'[t] # pc[t]
            => UNCHANGED <<instance, objInit, objOcr>>]_vars

C7_Witness ==
  \E t \in Threads :
    /\ Extracted(t)
    /\ result[t] = Raised("ValueError")
    /\ out[t] = ExcValue("ValueError")
    /\ engineCalls[t] = 1
    /\ objInit[instance] = "true"

(* --------------------- claims on preprocess_image ---------------------- *)

\* C8: preprocess_image raises FileNotFoundError when the argument is not a
\* str, when the path does not exist and when the file cannot be decoded,
\* testing in that order; then no stage has run and no buffer is returned.
C8_NotFoundInOrder ==
  LET f == imgArg.file
      bad == ~imgArg.isStr \/ ~f.exists \/ ~f.decodable
  IN  /\ bad => /\ imgStages = <<>>
                /\ image = NoArray
                /\ imgPc \in {"check_type", "check_exists", "imread", "raised"}
      /\ imgPc = "check_exists" => imgArg.isStr
      /\ imgPc = "imread" => imgArg.isStr /\ f.exists
      /\ imgPc = "raised" =>
           /\ bad
           /\ imgErr.type = "FileNotFoundError"
           /\ imgErr.msg = IF ~imgArg.isStr THEN "Image path must be a string"
                           ELSE IF ~f.exists THEN "Image file not found"
                           ELSE "Failed to read image file"

C8_Witness ==
  /\ imgPc = "raised"
  /\ imgArg.isStr /\ imgArg.file.exists /\ ~imgArg.file.decodable
  /\ imgErr = RaiseNotFound("Failed to read image file")
  /\ imgStages = <<>>

SentenceBreaksReplaced(s, least) ==
  LET IsBreak(i, e) ==
        /\ s[i] = "_"
        /\ e >= i + 1 + least
        /\ e <= Len(s)
        /\ s[e] \in {"A", "B"}
        /\ \A j \in (i + 1)..(e - 1) : s[j] \in {" ", "\t", "\n"}
      EndOf(i) == CHOOSE e \in 1..Len(s) : IsBreak(i, e)
      starts == { i \in 1..Len(s) : \E e \in 1..Len(s) : IsBreak(i, e) }
      Piece(j) ==
        IF j \in starts THEN <<".", " ", s[EndOf(j)]>>
        ELSE IF \E i \in starts : i < j /\ j <= EndOf(i) THEN <<>>
        ELSE <<s[j]>>
      RECURSIVE Cat(_)
      Cat(j) == IF j > Len(s) THEN <<>> ELSE Piece(j) \o Cat(j + 1)
  IN  Cat(1)

\* C10 as stated: the first rewrite of correct_punctuation replaces every
\* underscore followed by zero or more whitespace characters and an
\* uppercase letter, "a_B" included.
C10_Rule1OptionalWhitespace ==
  txtFn = "correct_punctuation" => txtSteps[1] = SentenceBreaksReplaced(txtIn, 0)

\* C10 as amended: the first rewrite of correct_punctuation replaces every
\* underscore followed by one or more whitespace characters and an uppercase
\* letter by a period, one space and that letter; an underscore directly
\* followed by an uppercase letter is left as it is.
C10_Rule1NeedsWhitespace ==
  txtFn = "correct_punctuation" => txtSteps[1] = SentenceBreaksReplaced(txtIn, 1)

C10_Witness ==
  /\ txtFn = "correct_punctuation"
  /\ txtIn = <<"a", "_", " ", "B">>
  /\ txtSteps[1] = <<"a", ".", " ", "B">>

\* The last character of s that is no space, tab or newline; "" if none.
LastInk(s) ==
  LET ink == { i \in 1..Len(s) : s[i] \notin {" ", "\t", "\n"} }
  IN  IF ink = {} THEN "" ELSE s[CHOOSE i \in ink : \A j \in ink : j <= i]

\* C11: in correct_punctuation, on the output of rule 1, a run of one or
\* more underscores at the very end of the string becomes a single period;
\* then, on the output of that, an underscore followed only by whitespace up
\* to the end becomes a period followed by that same whitespace; hence an
\* input whose last non-whitespace character is an underscore gives an output
\* whose last non-whitespace character is a period.
C11_TrailingUnderscoreBecomesPeriod ==
  txtFn = "correct_punctuation" =>
    LET r1 == txtSteps[1]
        r2 == txtSteps[2]
        r3 == txtSteps[3]
        run == { i \in 1..Len(r1) : \A j \in i..Len(r1) : r1[j] = "_" }
        last == { i \in 1..Len(r2) :
                    r2[i] = "_" /\ \A j \in (i + 1)..Len(r2) : r2[j] \in {" ", "\t", "\n"} }
    IN  /\ \A i \in run :
             (\A k \in run : i <= k) => r2 = SubSeq(r1, 1, i - 1) \o <<".">>
        /\ \A i \in last : r3 = [r2 EXCEPT ![i] = "."]
        /\ txtOut = r3
        /\ LastInk(txtIn) = "_" => LastInk(txtOut) = "."

C11_Witness ==
  /\ txtFn = "correct_punctuation"
  /\ txtIn = <<"_", "_", "_", " ">>
  /\ txtSteps = << <<"_", "_", "_", " ">>, <<"_", "_", "_", " ">>, <<"_", "_", ".", " ">> >>
  /\ txtOut = <<"_", "_", ".", " ">>

\* The text with every maximal run of spaces, tabs and newlines replaced by
\* one space.
WhitespaceRunsCollapsed(s) ==
  LET IsWs(i) == s[i] \in {" ", "\t", "\n"}
      Piece(i) == IF ~IsWs(i) THEN <<s[i]>>
                  ELSE IF i = 1 \/ ~IsWs(i - 1) THEN <<" ">>
                  ELSE <<>>
      RECURSIVE Cat(_)
      Cat(i) == IF i > Len(s) THEN <<>> ELSE Piece(i) \o Cat(i + 1)
  IN  Cat(1)

\* The text without its leading and trailing spaces, tabs and newlines.
Trimmed(s) ==
  LET ink == { i \in 1..Len(s) : s[i] \notin {" ", "\t", "\n"} }
  IN  IF ink = {} THEN <<>>
      ELSE SubSeq(s, CHOOSE i \in ink : \A j \in ink : i <= j,
                     CHOOSE i \in ink : \A j \in ink : j <= i)

C13_CleanIsIdempotent ==
  txtFn = "clean_ocr_text twice" =>
    /\ Len(txtSteps) = 6
    /\ txtOut = txtSteps[3]

C13_Witness ==
  /\ txtFn = "clean_ocr_text twice"
  /\ txtIn = <<"_", " ", "\n", "A">>
  /\ txtSteps[3] = <<".", " ", "A">>
  /\ txtOut = <<".", " ", "A">>

(* ------------------ claims on apply_ocr_corrections -------------------- *)

\* A key that is a word: not empty, letters, digits and underscores only.
IsWordKey(k) ==
  /\ k # <<>>
  /\ \A i \in 1..Len(k) : k[i] \in {"a", "b", "c", "n", "A", "B", "1", "_"}

\* The text in which every whole-word occurrence of the word `key`, in any
\* case, is replaced by `val`, the other characters kept.
WholeWordsReplaced(s, key, val) ==
  LET n == Len(key)
      Fold(c) == IF c = "A" THEN "a" ELSE IF c = "B" THEN "b" ELSE c
      InWord(i) ==
        i >= 1 /\ i <= Len(s) /\ s[i] \in {"a", "b", "c", "n", "A", "B", "1", "_"}
      Occurs(i) ==
        /\ i + n - 1 <= Len(s)
        /\ \A j \in 1..n : Fold(s[i + j - 1]) = Fold(key[j])
        /\ ~InWord(i - 1)
        /\ ~InWord(i + n)
      Piece(j) ==
        IF Occurs(j) THEN val
        ELSE IF \E i \in 1..Len(s) : Occurs(i) /\ i < j /\ j < i + n THEN <<>>
        ELSE <<s[j]>>
      RECURSIVE Cat(_)
      Cat(j) == IF j > Len(s) THEN <<>> ELSE Piece(j) \o Cat(j + 1)
  IN  Cat(1)

RECURSIVE AllWholeWordsReplaced(_, _)
AllWholeWordsReplaced(s, es) ==
  IF es = <<>> THEN s
  ELSE AllWholeWordsReplaced(WholeWordsReplaced(s, Head(es).key, Head(es).val), Tail(es))

\* C14: apply_ocr_corrections replaces every whole-word occurrence of each
\* key, in any case, by the key's value, never an occurrence inside a longer
\* word, and leaves every other character as it is.
C14_WholeWordsReplacedByValue ==
  /\ txtPc \in {"returned", "raised"}
  /\ \A i \in DOMAIN corrections.entries : IsWordKey(corrections.entries[i].key)
  => /\ txtPc = "returned"
     /\ txtOut = AllWholeWordsReplaced(txtIn, corrections.entries)

\* C15: the post-processing functions raise no error, whatever the text and
\* the mapping, and return a text that matches no rewrite rule unchanged.
C15_PostProcessingNeverFails ==
  /\ txtPc # "raised"
  /\ txtErr = "none"
  /\ txtPc = "returned"
       /\ (\A i \in DOMAIN corrections.entries :
             WholeWordsReplaced(txtIn, corrections.entries[i].key, <<"c">>) = txtIn
             /\ corrections.entries[i].key # <<>>)
       => txtOut = txtIn

\* What the call with the one-entry mapping {e.key: e.val} does to a text.
ApplyOne(text, e) == SubCorrection(text, e.key, e.val)

\* The left fold of the one-entry calls over the entries, a failure ending it.
RECURSIVE FoldEntries(_, _)
FoldEntries(acc, es) ==
  IF es = <<>> \/ acc.err # "none" THEN acc
  ELSE FoldEntries(ApplyOne(acc.text, Head(es)), Tail(es))

\* C20: apply_ocr_corrections takes the entries one after another in the
\* mapping's iteration order, each on the text the entries before it
\* produced, so that {"a": "b", "b": "c"} turns "a" into "c"; its result is
\* the left fold of the one-entry calls in that order.
C20_EntriesFoldInOrder ==
  LET es == corrections.entries
      folded == FoldEntries([err |-> "none", text |-> txtIn], es)
  IN  /\ txtPc = "returned" => folded = [err |-> "none", text |-> txtOut]
      /\ txtPc = "raised" => folded.err = txtErr
      /\ txtPc = "loop" =>
           \A i \in 1..Len(txtSteps) :
             txtSteps[i] = ApplyOne(IF i = 1 THEN txtIn ELSE txtSteps[i - 1], es[i]).text
      /\ txtPc = "returned" /\ txtIn = <<"a">>
           /\ es = << [key |-> <<"a">>, val |-> <<"b">>], [key |-> <<"b">>, val |-> <<"c">>] >>
           => txtOut = <<"c">>

C20_Witness ==
  /\ txtPc = "returned"
  /\ txtIn = <<"a">>
  /\ corrections.entries =
       << [key |-> <<"a">>, val |-> <<"b">>], [key |-> <<"b">>, val |-> <<"c">>] >>
  /\ txtSteps = << <<"b">>, <<"c">> >>
  /\ txtOut = <<"c">>

(* ------------------- claims on the gateway's phases -------------------- *)

\* A thread is inside the PaddleOCR(...) call: the gateway is Constructing.
InConstructor(t) == pc[t] = "init_store"

\* The gateway is Ready: the instance exists and its flag is True.
GatewayReady == instance # 0 /\ objInit[instance] = "true"

\* C16: while one caller constructs the engine, no other caller starts a
\* second construction or returns from OCREngine() before the gateway is
\* Ready: at most one thread is inside the construction step at a time.
C16_OneConstructionAtATime ==
  /\ Cardinality({ t \in Threads : InConstructor(t) }) <= 1
  /\ \A t, u \in Threads :
       InConstructor(t) /\ u # t => pc[u] \notin {"init_store", "init_setflag"}
  /\ \A t \in Threads : pc[t] = "ready" => GatewayReady

\* The handle is published: a caller holds the engine, or the flag is True.
HandlePublished ==
  \/ \E t \in Threads : pc[t] \in {"ready", "in_ocr", "have_result"}
  \/ GatewayReady

\* C17: once the handle is published, engine.ocr is never replaced by
\* another engine object, and a thread that has started extract_text keeps
\* seeing the handle it started with.
C17_PublishedHandleNeverReplaced ==
  /\ [][HandlePublished => objOcr' = objOcr]_vars
  /\ [](\A t \in Threads :
          pc[t] \in {"in_ocr", "have_result"} => objOcr[self[t]] = handle[t])

\* Another thread is inside the engine's recognition call.
OthersRecognizing(t) ==
  \E u \in Threads \ {t} : pc[u] = "in_ocr"

\* C18: extract_text takes no lock, so recognition calls are not serialized
\* by the gateway: a caller holding the engine can always enter the engine's
\* recognition call, whoever else is inside it, and while recognition calls
\* are under way a OCREngine() request made when the gateway is Ready goes
\* straight to the return of __new__ and through __init__, without waiting.
C18_RecognitionNotSerialized ==
  \A t \in Threads :
    /\ pc[t] \in {"ready", "in_ocr", "have_result"} => lock # t
    /\ pc[t] = "ready" /\ exts[t] < calls[t] =>
         ENABLED (ExtractInvoke(t) /\ lock' = lock)
    /\ pc[t] = "have_result" /\ OthersRecognizing(t) =>
         ENABLED (ExtractFinish(t) /\ lock' = lock)
    /\ GatewayReady /\ OthersRecognizing(t) =>
         /\ AtRest(t) /\ calls[t] < MaxCalls =>
              ENABLED (NewCheckFirst(t, MaxCalls) /\ pc'[t] = "new_return")
         /\ pc[t] = "new_return" => ENABLED (NewReturn(t) /\ pc'[t] = "init_check")
         /\ pc[t] = "init_check" => ENABLED (InitCheck(t) /\ pc'[t] = "ready")

C18_Witness ==
  /\ GatewayReady
  /\ lock = 0
  /\ \A t \in Threads : pc[t] = "in_ocr" /\ handle[t] # 0

(* ------------------ claims on the order of the stages ------------------ *)

\* Names a smoothing filter of cv2 would be recorded under.
SmoothingStages == {"bilateralFilter", "edgePreservingFilter", "fastNlMeansDenoisingColored"}

\* The stage `name` ran, and ran before every stage of `later`.
RanBefore(name, later) ==
  \E i \in 1..Len(imgStages) :
    /\ imgStages[i] = name
    /\ \A j \in 1..Len(imgStages) : imgStages[j] \in later => i < j

\* The stages from the LAB conversion on: LAB, CLAHE on the luminance channel
\* only, back to RGB, clamp; the shadow suppression done before them.
ContrastStagesInOrder ==
  /\ RanBefore("BGR2RGB", {"RGB2LAB", "clahe", "LAB2RGB", "clip"})
  /\ RanBefore("RGB2LAB", {"clahe", "LAB2RGB", "clip"})
  /\ RanBefore("clahe", {"LAB2RGB", "clip"})
  /\ RanBefore("LAB2RGB", {"clip"})
  /\ RanBefore("clip", {})
  /\ channels.split /\ channels.l = <<"clahe">> /\ channels.a = <<>> /\ channels.b = <<>>
  /\ \A i, j \in 1..Len(imgStages) :
       imgStages[i] \in {"threshold", "morph_close", "dilate", "inpaint"}
         /\ imgStages[j] = "RGB2LAB" => i < j

C21_FlagSetBeforeInstanceVisible ==
  /\ \A t \in Threads : pc[t] # "failed"
  /\ \A t \in Threads : pc[t] = "init_check" => objInit[self[t]] # "unset"
  /\ \A t \in Threads :
       pc[t] = "new_return" /\ lock # t => objInit[instance] # "unset"

\* C22: when the engine constructor raises during a request, the exception
\* reaches that caller, the flag stays False, no handle is stored and the
\* wrapper stays registered; the next request builds an engine again; the
\* flag is True only if a constructed engine is stored.
C22_ConstructorFailureLeavesUninitialized ==
  /\ [](\A t \in Threads :
          pc[t] = "ctor_raised" =>
            /\ out[t].kind = "exc" /\ out[t].exc \in EngineExceptions
            /\ instance # 0 /\ self[t] = instance
            /\ objInit[instance] = "false"
            /\ objOcr[instance] = 0
            /\ calls[t] < MaxSeqCalls => ENABLED NewCheckFirst(t, MaxSeqCalls))
  /\ [](\A o \in Objects :
          objInit[o] = "true" => objOcr[o] # 0 /\ objOcr[o] <= paddleCalls)
  /\ [][\A t \in Threads :
          /\ pc'[t] = "ctor_raised" /\ pc[t] # "ctor_raised"
               => UNCHANGED <<instance, objInit, objOcr, lock>>
          /\ pc[t] = "init_check" /\ pc'[t] # pc[t] /\ objInit[self[t]] = "false"
               => pc'[t] = "init_construct"
          /\ pc[t] = "init_construct" /\ pc'[t] # pc[t]
               => paddleCalls' = paddleCalls + 1]_vars

C22_Witness ==
  /\ calls[1] = 2
  /\ pc[1] = "init_store"
  /\ paddleCalls = 2
  /\ instance = 1 /\ nObjects = 1
  /\ objInit[1] = "false" /\ objOcr[1] = 0

(* ------------------ claims on the gateway's termination ----------------- *)

\* The request of thread t is over: OCREngine() returned the gateway or
\* raised to its caller.
RequestOver(t) == pc[t] \in {"ready", "failed", "ctor_raised"}

\* The statements of __new__ inside `with cls._lock:`.
InsideWith(t) == pc[t] \in {"new_check2", "new_alloc", "new_setflag", "new_release"}

\* C23: under weak fairness, with constructor calls that terminate, every
\* OCREngine() request of every concurrent caller eventually comes back to
\* its caller; the lock is held only inside the `with` block, so it is
\* released on every path out of __new__; a held lock is eventually free and
\* while a request is under way some thread can step (no deadlock).
C23_EveryRequestReturns ==
  /\ \A t \in Threads : (~AtRest(t)) ~> RequestOver(t)
  /\ \A t \in Threads : (pc[t] = "new_acquire") ~> (lock = t)
  /\ (lock # 0) ~> (lock = 0)
  /\ [](\A t \in Threads : lock = t <=> InsideWith(t))
  /\ []((\E t \in Threads : ~AtRest(t)) => \E u \in Threads : ENABLED RequestStep(u))

\* A caller that had to wait for the lock holds it after the first holder's
\* request is over.
C23_Witness ==
  \E t, u \in Threads :
    /\ t # u
    /\ RequestOver(t) /\ instance # 0 /\ self[t] = instance
    /\ pc[u] = "new_check2" /\ lock = u

====
